---- MODULE Spec2Model ----
(***************************************************************************)
(* Infinipus: an RS485 master that polls rotary-encoder responders and     *)
(* colours a NeoPixel strip from the answers.                              *)
(*                                                                         *)
(* The master (multi-slave firmware) and the responders (dynamic-identity  *)
(* and static-identity firmware) are modelled as timed sequential          *)
(* programs sharing one half-duplex bus.  `now` is the master's millis();  *)
(* every delay(n) of the code suspends its program for exactly n ms, all   *)
(* other statements take no time, except Adafruit_NeoPixel::show(), whose  *)
(* duration the source does not fix (ShowMs).                              *)
(***************************************************************************)
EXTENDS Integers, Sequences, FiniteSets, TLC

\* ---------------------------------------------------------------- bounds
\* Channels of the master's table that are modelled (the source has 7).
NUM_ENCODERS == 2
\* No scheduler pass starts at or after this value of millis().
MaxTime == 8400
\* The same for the runs with fair scheduling.
LiveMaxTime == 7300
\* The same for the runs that follow a channel until it goes stale.
StaleMaxTime == 16300
\* Responders on their own: no byte reaches them at or after this time.
RespMaxTime == 20
\* Capacity of a node's serial receive buffer.
RxCap == 2
\* Number of times an encoder knob is turned in one run.
MaxTurns == 1
\* Number of responders that lose power in one run.
MaxUnplug == 1
\* Number of responders that are still in setup() when the master starts.
MaxBooting == 1
\* Duration of one Adafruit_NeoPixel::show() in ms.
ShowMs == 46
\* Time one call of loop() takes besides its delays and show(), in ms.
LoopMs == 17
\* Latest value of millis() at the first call of loop() minus MASTER_DELAY_MS.
MaxSetupMs == 0

\* Arms of the arm controller that are modelled (the source has 6).
NUM_ARMS == 2
\* Pixels of a strip that are modelled (the source has 350).
LED_COUNT == 3
\* Duration of one show() of an arm's strip in ms.
ArmShowMs == 11
\* Number of times the arm controller's knobs are turned in one run.
MaxArmTurns == 2
\* No call of the arm controller's loop() starts at or after this time.
ArmMaxTime == 17200
\* The same for the runs that follow the rainbow hue through its wrap: the
\* master, the arm controller, and the knob turns in such a run.
HueMaxTime == 53500
ArmHueMaxTime == 29000
MaxHueTurns == 1
\* No call of loop() starts at or after this time in the runs of both
\* versions of the arm controller.
TwinkleMaxTime == 6200
\* No call of the LED test's loop() starts at or after this time.
TestMaxTime == 34500
\* No call of the master's loop() starts at or after this time in the runs
\* with responders that found no encoder.
UnfoundMaxTime == 7350
\* No call of the arm controller's loop() starts at or after this time in
\* the runs with counts outside 0 .. 255.
WideMaxTime == 7200
\* No call of the single-slave master's loop() starts at or after this time.
OneMaxTime == 6500

\* ------------------------------------------------------ program constants
MASTER_DELAY_MS == 6000
timeBetweenChecksMs == 1000
timeToWaitMs == 200
timeToRainbowMs == 10000
NUM_ENCODER_POSITIONS == 16
colorArray0 == 16737843
ColorArrayLen == 50
RS485_TRANSMIT == 1
RS485_RECEIVE == 0
HueIncrement == 128
HueWrap == 327680
TxSettleMs == 1
PollStepMs == 10
ReadSettleMs == 10
ExchangeTailMs == 10
SlaveReadSettleMs == 10
SlaveHoldMs == 10
SLAVE_ENCODER_ID == 65
\* single-slave master
timeBetweenChecksMsOne == 200
OneAddress == 65
\* arm controller
NUM_MS_TO_RAINBOW == 10000
NUM_MS_BEFORE_SENSOR_REREAD == 1000
NUM_COLOR_MAPPINGS == 15
MAX_RAINBOW_HUE == 327680
RAINBOW_HUE_INC_AMOUNT == 256
FirstSenseTimeMs == 5000
ArmReadSettleMs == 10
MapInMax == 255
AnalogMax == 1023
TEST_DELAY_MS == 2000
TwinkleLiteralV1 == 16726534

Chan == 0 .. (NUM_ENCODERS - 1)

\* ENCODER_IDS[i]: 'A' is 65.
ENCODER_IDS(i) == 65 + i

\* Raw encoder counts the knobs are turned to.
RawValues == {-13, 0, 5}
\* Raw counts for the responder taken on its own: 32-bit values on both
\* sides of zero, of the multiples of 16 and of the 16-bit range.
RespRawValues == {-40000, -32769, -17, -16, -1, 0, 5, 16, 32768, 40000}
\* Encoder counts the arm controller's knobs are turned to: two counts of
\* one colour index and one of another.
ArmValues == {0, 5, 40}
\* Encoder counts on both sides of the range 0 .. 255 that readEncoders
\* maps from, and one inside it.
WideArmValues == {-19, 40, 300}
\* Levels of the analog inputs of v0.1 (0 .. 1023).
PotValues == {0, 100, 1023}
\* The counts the knobs are turned to in the runs that follow the hue.
HueRawValues == {5}
HueArmValues == {40}
\* Bytes other nodes put on the bus: identities and position values.
EnvBytes == {65, 66, 5}
\* encoderId of a dynamic responder that found no encoder: the char that
\* the initialiser "" converts to, which the source does not fix.
UnfoundIds == {0, 5, -128}
\* What a receiver may latch instead when two drivers are enabled at once.
GarbledBytes == {255}

VARIABLES
    now,              \* millis() of the master
    mpc,              \* position of the master in loop()
    mwake,            \* time at which the master's current delay ends
    lastCheck, encoderPosition, lastChanged, encoderExists,
    byteReceived, currRainbowHue,
    encoderIdx,       \* loop variable of both for loops of loop()
    startTime,        \* local of read_encoder_value
    mdir,             \* SSERIAL_CTRL_PIN of the master
    mrx,              \* Serial1 receive buffer of the master
    strip,            \* what stripOne holds: <<kind, value>>
    \* responders, one per channel
    spc, swake, sdir, srx, sByteReceived, sEncoderPosition, encoderId,
    encoderFound, firmware, raw, turns,
    \* observation (history) variables
    sent,             \* address bytes written per channel since start
    mlog,             \* address bytes written in the current pass
    turnLog,          \* <<channel, exists flag>> at each turn of the pass
    changed,          \* channels whose position changed in this loop() call
    drawn,            \* per channel: what color_leds did in this loop() call
    replies,          \* per responder: bytes written, the last one, its reading
    passes,           \* scheduler passes completed
    renders,          \* colouring passes completed (hue updates)
    \* the single-slave master (it shares the master's other variables)
    stripOneEncoderPos, lastChangeOne,
    waitFrom,         \* (history) time at which the current wait began
    \* the arm controller
    apc,              \* position of the arm controller in loop()
    awake,            \* time at which its current delay or show() ends
    currArm,          \* loop variable of readEncoders() and color()
    currentColorIndex, currentEncoderPos, isActive, activedTimeMs, swap,
    lastSenseTimeMs,
    aturns,           \* knob turns so far
    paint,            \* (history) per arm: the last two color() outputs
    \* the LED strips of the arms, and the LED test sequencer
    pixels,           \* per arm: the colour of each pixel of its strip
    currSeq, startTimeMs,
    seqLog,           \* (history) the sequences shown so far, in order
    pot               \* per arm: the level of its analog input (v0.1)

mvars == <<mpc, mwake, lastCheck, encoderPosition, lastChanged, encoderExists,
           byteReceived, currRainbowHue, encoderIdx, startTime, mdir, strip>>
svars == <<spc, swake, sdir, sByteReceived, sEncoderPosition, encoderId,
           encoderFound, firmware, raw, turns>>
hvars == <<sent, mlog, turnLog, changed, drawn, replies, passes, renders>>
onevars == <<stripOneEncoderPos, lastChangeOne, waitFrom>>
avars == <<apc, awake, currArm, currentColorIndex, currentEncoderPos,
           isActive, activedTimeMs, swap, lastSenseTimeMs, aturns, paint>>
tvars == <<pixels, currSeq, startTimeMs, seqLog, pot>>

vars == <<now, mvars, mrx, srx, svars, hvars, onevars, avars, tvars>>

\* ------------------------------------------------------------ arithmetic
Min(S) == CHOOSE x \in S : \A y \in S : x <= y

\* C++ remainder: truncation towards zero, the sign follows the dividend.
CRem(a, b) == IF a >= 0 THEN a % b ELSE -((-a) % b)

\* Conversion of a wider integer to the 16-bit int of the AVR boards.
ToInt16(x) == ((x + 32768) % 65536) - 32768

\* Conversion to the uint8_t that Serial1.write(int) puts on the wire.
ToByte(x) == x % 256

\* Conversion to the uint16_t first_hue of Adafruit_NeoPixel::rainbow.
ToUint16(x) == x % 65536

\* ------------------------------------------------------------------- bus
\* HardwareSerial drops an incoming byte when the receive buffer is full.
Push(q, w) == IF Len(q) < RxCap THEN Append(q, w) ELSE q

Powered(s) == spc[s] \notin {"off", "gone"}

\* What receivers latch for byte b when another driver is enabled too.
OnWire(b, clash) == IF clash THEN {b} \cup GarbledBytes ELSE {b}

\* The master writes b: every powered responder whose transceiver is in
\* receive mode latches it.
MasterWrite(b) ==
    \E w \in OnWire(b, \E s \in Chan : sdir[s] = RS485_TRANSMIT) :
        /\ srx' = [s \in Chan |->
                     IF Powered(s) /\ sdir[s] = RS485_RECEIVE
                     THEN Push(srx[s], w) ELSE srx[s]]
        /\ mrx' = mrx

\* Responder s writes b: the master and the other responders latch it when
\* their transceivers are in receive mode.
SlaveWrite(s, b) ==
    \E w \in OnWire(b, mdir = RS485_TRANSMIT
                        \/ \E t \in Chan \ {s} : sdir[t] = RS485_TRANSMIT) :
        /\ mrx' = IF mdir = RS485_RECEIVE THEN Push(mrx, w) ELSE mrx
        /\ srx' = [t \in Chan |->
                     IF t # s /\ Powered(t) /\ sdir[t] = RS485_RECEIVE
                     THEN Push(srx[t], w) ELSE srx[t]]

\* ------------------------------------------------------------------ init
NoDraw == [what |-> "none", at |-> 0, idx |-> 0]

InitMaster(pc, times) ==
    /\ now \in times
    /\ mpc = pc
    /\ mwake = 0
    /\ lastCheck = 0
    /\ encoderPosition = [i \in Chan |-> 0]
    /\ lastChanged = [i \in Chan |-> 0]
    /\ encoderExists = [i \in Chan |-> TRUE]
    /\ byteReceived = 0
    /\ currRainbowHue = 0
    /\ encoderIdx = 0
    /\ startTime = 0
    /\ mdir = RS485_RECEIVE
    /\ mrx = <<>>
    /\ strip = [kind |-> "rainbow", val |-> ToUint16(colorArray0)]
    /\ sent = [i \in Chan |-> 0]
    /\ mlog = <<>>
    /\ turnLog = <<>>
    /\ changed = {}
    /\ drawn = [i \in Chan |-> NoDraw]
    /\ passes = 0
    /\ renders = 0
    /\ stripOneEncoderPos = 0
    /\ lastChangeOne = 0
    /\ waitFrom = 0

NoReply == [raw |-> 0, byte |-> 0, n |-> 0]

InitSlaves(states) ==
    /\ spc \in [Chan -> states]
    /\ swake = [s \in Chan |-> 0]
    /\ sdir = [s \in Chan |-> RS485_RECEIVE]
    /\ srx = [s \in Chan |-> <<>>]
    /\ sByteReceived = [s \in Chan |-> 0]
    /\ sEncoderPosition = [s \in Chan |-> 0]
    /\ encoderId = [s \in Chan |-> ENCODER_IDS(s)]
    /\ encoderFound = [s \in Chan |-> TRUE]
    /\ firmware = [s \in Chan |-> "dynamic"]
    /\ raw = [s \in Chan |-> 0]
    /\ turns = 0
    /\ replies = [s \in Chan |-> NoReply]

\* The arms of the arm controller.
Arm == 0 .. (NUM_ARMS - 1)

\* The pixels of one strip.
Pixel == 0 .. (LED_COUNT - 1)

\* colors[] and compColors[] of the arm controller v0.2 (lines 250-251) and
\* of the LED test (lines 42-43), as sequences: colors[k] is Colors[k + 1].
Colors ==
    <<1227007, 121859, 16770605, 16598169, 14621179, 6182911, 15875238,
      16749877, 4980534, 196324, 16056555, 840959, 9305866, 16772870,
      16726534>>

CompColors ==
    <<16734482, 14418394, 2967295, 4521384, 3537689, 16318295, 3994248,
      3514367, 15349503, 16646684, 62730, 16725772, 8129279, 399103,
      445439>>

\* compColors[] of the arm controller v0.1 (line 48): 0xFF0000 throughout.
CompColorsV1 == [k \in 1 .. NUM_COLOR_MAPPINGS |-> 16711680]

\* A pixel set by setPixelColor(pixel, c), and one set by rainbow(hue).
Rgb(c) == [kind |-> "rgb", val |-> c]

Hue(h) == [kind |-> "hue", val |-> h]

\* The strips after begin() and the first show() of setup(): all pixels
\* off; the test sequencer's globals (arm_led_encoder_test.ino, lines 46-47).
StripsDark ==
    /\ pixels = [a \in Arm |-> [i \in Pixel |-> Rgb(0)]]
    /\ currSeq = 0
    /\ startTimeMs = 0
    /\ seqLog = <<>>
    /\ pot = [a \in Arm |-> 0]

\* Arm controller: globals and setup(), lines 253-299; every encoder is found and at 0.
InitArms ==
    /\ apc = "loop"
    /\ awake = 0
    /\ currArm = 0
    /\ currentColorIndex = [a \in Arm |-> NUM_COLOR_MAPPINGS + 1]
    /\ currentEncoderPos = [a \in Arm |-> 0]
    /\ isActive = [a \in Arm |-> FALSE]
    /\ activedTimeMs = [a \in Arm |-> 0]
    /\ swap = [a \in Arm |-> FALSE]
    /\ lastSenseTimeMs = FirstSenseTimeMs
    /\ aturns = 0
    /\ paint = [a \in Arm |-> <<>>]
    /\ StripsDark

\* The arm controller is not part of the run.
ArmsOff ==
    /\ apc = "off"
    /\ awake = 0
    /\ currArm = 0
    /\ currentColorIndex = [a \in Arm |-> NUM_COLOR_MAPPINGS + 1]
    /\ currentEncoderPos = [a \in Arm |-> 0]
    /\ isActive = [a \in Arm |-> FALSE]
    /\ activedTimeMs = [a \in Arm |-> 0]
    /\ swap = [a \in Arm |-> FALSE]
    /\ lastSenseTimeMs = FirstSenseTimeMs
    /\ aturns = 0
    /\ paint = [a \in Arm |-> <<>>]
    /\ StripsDark

\* millis() when setup() returns and loop() is first called.
LoopStart == MASTER_DELAY_MS .. (MASTER_DELAY_MS + MaxSetupMs)

Init ==
    /\ ArmsOff
    /\ InitMaster("loop", LoopStart)
    /\ InitSlaves({"off", "setup", "idle"})
    /\ Cardinality({s \in Chan : spc[s] = "setup"}) <= MaxBooting

\* ---------------------------------------------------------------- master
\* The master stands at pc and is not inside a delay (mwake is 0 outside
\* delays).
MasterAt(pc) == mpc = pc /\ now >= mwake

\* A loop() that polls in every call.
PassDueAlways == TRUE

\* loop(), line 143: is a scheduler pass due?  A due pass starts the walk
\* over the channels, otherwise the loop goes on to the colouring.
PassDue == (lastCheck + timeBetweenChecksMs) < now

MLoopDue(horizon) ==
    /\ MasterAt("loop") /\ now < horizon
    /\ PassDue
    /\ mpc' = "for" /\ encoderIdx' = 0
    /\ mlog' = <<>> /\ turnLog' = <<>> /\ changed' = {}
    /\ drawn' = [i \in Chan |-> NoDraw]
    /\ mwake' = 0
    /\ UNCHANGED <<now, lastCheck, encoderPosition, lastChanged,
                   encoderExists, byteReceived, currRainbowHue, startTime,
                   mdir, strip, mrx, srx, svars, sent, replies, passes,
                   renders>>
    /\ UNCHANGED <<onevars, avars, tvars>>

MLoopIdle(horizon) ==
    /\ MasterAt("loop") /\ now < horizon
    /\ ~PassDue
    /\ mpc' = "color" /\ encoderIdx' = 0
    /\ changed' = {}
    /\ drawn' = [i \in Chan |-> NoDraw]
    /\ mwake' = 0
    /\ UNCHANGED <<now, lastCheck, encoderPosition, lastChanged,
                   encoderExists, byteReceived, currRainbowHue, startTime,
                   mdir, strip, mrx, srx, svars, sent, mlog, turnLog,
                   replies, passes,
                   renders>>
    /\ UNCHANGED <<onevars, avars, tvars>>

\* A walk that forgets to look at the flag.
PollsAlways(i) == TRUE

\* loop(), lines 145-151: which channels the walk hands to
\* read_encoder_value.
PollsChannel(i) == encoderExists[i]

\* The walk finds a channel that is marked absent and goes on.
MForSkip ==
    /\ MasterAt("for") /\ encoderIdx < NUM_ENCODERS
    /\ ~PollsChannel(encoderIdx)
    /\ turnLog' = Append(turnLog, <<encoderIdx, encoderExists[encoderIdx]>>)
    /\ encoderIdx' = encoderIdx + 1
    /\ mwake' = 0
    /\ UNCHANGED <<now, mpc, lastCheck, encoderPosition, lastChanged,
                   encoderExists, byteReceived, currRainbowHue, startTime,
                   mdir, strip, mrx, srx, svars, sent, mlog, changed, drawn,
                   replies, passes,
                   renders>>
    /\ UNCHANGED <<onevars, avars, tvars>>

\* read_encoder_value, lines 86-89: transmit mode, the address byte, and the
\* start of delay(1).
MTx ==
    /\ MasterAt("for") /\ encoderIdx < NUM_ENCODERS
    /\ PollsChannel(encoderIdx)
    /\ mdir' = RS485_TRANSMIT
    /\ MasterWrite(ENCODER_IDS(encoderIdx))
    /\ mwake' = now + TxSettleMs
    /\ mpc' = "txd"
    /\ sent' = [sent EXCEPT ![encoderIdx] = @ + 1]
    /\ mlog' = Append(mlog, ENCODER_IDS(encoderIdx))
    /\ turnLog' = Append(turnLog, <<encoderIdx, encoderExists[encoderIdx]>>)
    /\ UNCHANGED <<now, lastCheck, encoderPosition, lastChanged,
                   encoderExists, byteReceived, currRainbowHue, encoderIdx,
                   startTime, strip, svars, changed, drawn, replies, passes,
                   renders>>
    /\ UNCHANGED <<onevars, avars, tvars>>

\* A master that never releases the bus.
KeepTransmit == RS485_TRANSMIT

\* The direction the master's transceiver is left in after the address byte.
AfterAddressDir == RS485_RECEIVE

\* read_encoder_value, lines 90-93: back to receive mode, startTime.
MTxDone ==
    /\ MasterAt("txd")
    /\ mdir' = AfterAddressDir
    /\ startTime' = now
    /\ mpc' = "wait"
    /\ mwake' = 0
    /\ UNCHANGED <<now, lastCheck, encoderPosition, lastChanged,
                   encoderExists, byteReceived, currRainbowHue, encoderIdx,
                   strip, mrx, srx, svars, hvars>>
    /\ UNCHANGED <<onevars, avars, tvars>>

\* read_encoder_value, line 94 with nothing available: delay(10).
MWaitNone ==
    /\ MasterAt("wait") /\ mrx = <<>>
    /\ mwake' = now + PollStepMs
    /\ mpc' = "wd"
    /\ UNCHANGED <<now, lastCheck, encoderPosition, lastChanged,
                   encoderExists, byteReceived, currRainbowHue, encoderIdx,
                   startTime, mdir, strip, mrx, srx, svars, hvars>>
    /\ UNCHANGED <<onevars, avars, tvars>>

\* A wait without a timeout.
NeverTimedOut == FALSE

\* read_encoder_value, line 99: the responder failed to answer in time.
TimedOut == startTime + timeToWaitMs < now

\* read_encoder_value, lines 99-104 and, the flag being false, line 121.
MGiveUp ==
    /\ MasterAt("wd") /\ TimedOut
    /\ encoderExists' = [encoderExists EXCEPT ![encoderIdx] = FALSE]
    /\ mwake' = now + ExchangeTailMs
    /\ mpc' = "tail"
    /\ UNCHANGED <<now, lastCheck, encoderPosition, lastChanged,
                   byteReceived, currRainbowHue, encoderIdx, startTime, mdir,
                   strip, mrx, srx, svars, hvars>>
    /\ UNCHANGED <<onevars, avars, tvars>>

\* read_encoder_value, line 99 not yet true: back to the loop condition.
MWaitMore ==
    /\ MasterAt("wd") /\ ~TimedOut
    /\ mpc' = "wait"
    /\ mwake' = 0
    /\ UNCHANGED <<now, lastCheck, encoderPosition, lastChanged,
                   encoderExists, byteReceived, currRainbowHue, encoderIdx,
                   startTime, mdir, strip, mrx, srx, svars, hvars>>
    /\ UNCHANGED <<onevars, avars, tvars>>

\* read_encoder_value, lines 94, 108-111: a byte is available, the flag is
\* still true: Serial1.read() and the start of delay(10).
MRead ==
    /\ MasterAt("wait") /\ mrx # <<>>
    /\ byteReceived' = Head(mrx)
    /\ mrx' = Tail(mrx)
    /\ mwake' = now + ReadSettleMs
    /\ mpc' = "rd"
    /\ UNCHANGED <<now, lastCheck, encoderPosition, lastChanged,
                   encoderExists, currRainbowHue, encoderIdx, startTime,
                   mdir, strip, srx, svars, hvars>>
    /\ UNCHANGED <<onevars, avars, tvars>>

\* A stamp taken when the exchange started instead of when it ended.
ChangeStampStart == startTime

\* read_encoder_value, lines 114-118: the time stored with a new position.
ChangeStamp == now

\* A comparison that always reports a new position.
DiffersAlways == TRUE

\* read_encoder_value, line 114: is the byte read a new position?
Differs == encoderPosition[encoderIdx] # byteReceived

\* read_encoder_value, lines 114-121.
MStore ==
    /\ MasterAt("rd")
    /\ IF Differs
       THEN /\ encoderPosition' =
                  [encoderPosition EXCEPT ![encoderIdx] = byteReceived]
            /\ lastChanged' = [lastChanged EXCEPT ![encoderIdx] = ChangeStamp]
            /\ changed' = changed \cup {encoderIdx}
       ELSE UNCHANGED <<encoderPosition, lastChanged, changed>>
    /\ mwake' = now + ExchangeTailMs
    /\ mpc' = "tail"
    /\ UNCHANGED <<now, lastCheck, encoderExists, byteReceived,
                   currRainbowHue, encoderIdx, startTime, mdir, strip, mrx,
                   srx, svars, sent, mlog, turnLog, drawn, replies, passes,
                   renders>>
    /\ UNCHANGED <<onevars, avars, tvars>>

\* A walk that stops at the first channel that timed out.
NextIdxStop == IF encoderExists[encoderIdx] THEN encoderIdx + 1 ELSE NUM_ENCODERS

\* loop(), line 145: the walk goes on with the next channel, whatever the
\* exchange ended with.
NextIdx == encoderIdx + 1

\* End of read_encoder_value and the encoderIdx++ of the walk.
MNext ==
    /\ MasterAt("tail")
    /\ encoderIdx' = NextIdx
    /\ mpc' = "for"
    /\ mwake' = 0
    /\ startTime' = 0
    /\ UNCHANGED <<now, lastCheck, encoderPosition, lastChanged,
                   encoderExists, byteReceived, currRainbowHue, mdir, strip, mrx, srx, svars, hvars>>
    /\ UNCHANGED <<onevars, avars, tvars>>

\* loop(), line 153: the walk is over.
MForEnd ==
    /\ MasterAt("for") /\ encoderIdx >= NUM_ENCODERS
    /\ lastCheck' = now
    /\ passes' = passes + 1
    /\ mpc' = "color" /\ encoderIdx' = 0
    /\ mwake' = 0
    /\ UNCHANGED <<now, encoderPosition, lastChanged, encoderExists,
                   byteReceived, currRainbowHue, startTime, mdir, strip, mrx,
                   srx, svars, sent, mlog, turnLog, changed, drawn, replies,
                   renders>>
    /\ UNCHANGED <<onevars, avars, tvars>>

\* A comparison that already turns stale at the boundary.
StaleAtBoundary(i) == lastChanged[i] + timeToRainbowMs <= now

\* color_leds, line 129: has the channel gone stale?
Stale(i) == lastChanged[i] + timeToRainbowMs < now

\* color_leds, lines 129-136: what is painted for an existing channel.
Painted(i) ==
    IF Stale(i)
    THEN [kind |-> "rainbow", val |-> ToUint16(currRainbowHue)]
    ELSE [kind |-> "fill", val |-> encoderPosition[i]]

\* color_leds for channel encoderIdx, lines 126-138: paint and show().
MColor ==
    /\ MasterAt("color") /\ encoderIdx < NUM_ENCODERS
    /\ IF encoderExists[encoderIdx]
       THEN /\ strip' = Painted(encoderIdx)
            /\ drawn' = [drawn EXCEPT ![encoderIdx] =
                           [what |-> Painted(encoderIdx).kind, at |-> now,
                            idx |-> Painted(encoderIdx).val]]
            /\ mwake' = now + ShowMs
       ELSE /\ drawn' = [drawn EXCEPT ![encoderIdx] =
                           [what |-> "skip", at |-> now, idx |-> 0]]
            /\ mwake' = 0
            /\ UNCHANGED strip
    /\ encoderIdx' = encoderIdx + 1
    /\ UNCHANGED <<now, mpc, lastCheck, encoderPosition, lastChanged,
                   encoderExists, byteReceived, currRainbowHue, startTime,
                   mdir, mrx, srx, svars, sent, mlog, turnLog, changed,
                   replies, passes,
                   renders>>
    /\ UNCHANGED <<onevars, avars, tvars>>

\* A wrap that lets the hue reach the bound before it resets.
NextHueLate(h) == IF h + HueIncrement > HueWrap THEN 0 ELSE h + HueIncrement

\* loop(), lines 171-176.
NextHue(h) == IF h + HueIncrement >= HueWrap THEN 0 ELSE h + HueIncrement

MHue ==
    /\ MasterAt("color") /\ encoderIdx >= NUM_ENCODERS
    /\ currRainbowHue' = NextHue(currRainbowHue)
    /\ mpc' = "loop"
    /\ mwake' = now + LoopMs
    /\ renders' = renders + 1
    /\ UNCHANGED <<now, lastCheck, encoderPosition, lastChanged,
                   encoderExists, byteReceived, encoderIdx, startTime, mdir,
                   strip, mrx, srx, svars, sent, mlog, turnLog, changed,
                   drawn, replies, passes>>
    /\ UNCHANGED <<onevars, avars, tvars>>

\* ------------------------------------------------------------- responder
\* What ss.getEncoderPosition() can return in this iteration of loop(): the
\* count of the last reading, or a new one while the knob is still turned.
Readings(s, values) == IF turns < MaxTurns THEN values \cup {raw[s]} ELSE {raw[s]}

\* A wrap that forgets the negative remainders of C++.
NormaliseNoFix(p) == CRem(p, NUM_ENCODER_POSITIONS)

\* Dynamic identity, lines 105-109: the reading wrapped into 0..15.
Normalise(p) ==
    LET r == CRem(p, NUM_ENCODER_POSITIONS)
    IN  IF r < 0 THEN r + NUM_ENCODER_POSITIONS ELSE r

\* Static identity, lines 194-198.
NormaliseStatic(p) ==
    LET r == CRem(p, NUM_ENCODER_POSITIONS)
    IN  IF r < 0 THEN r + NUM_ENCODER_POSITIONS ELSE r

\* A responder that answers whatever it reads.
AddressedAny(s) == TRUE

\* Lines 100 and 189: is the byte read the responder's own identity?
Addressed(s) ==
    IF firmware[s] = "static"
    THEN sByteReceived[s] = SLAVE_ENCODER_ID
    ELSE sByteReceived[s] = encoderId[s]

\* setup() returns (the delay(SLAVE_DELAY_MS) is over): loop() starts with
\* whatever Serial1 has buffered since Serial1.begin.
SBoot(s) ==
    /\ spc[s] = "setup"
    /\ spc' = [spc EXCEPT ![s] = "idle"]
    /\ UNCHANGED <<now, mvars, mrx, srx, swake, sdir, sByteReceived,
                   sEncoderPosition, encoderId, encoderFound, firmware, raw,
                   turns, hvars>>
    /\ UNCHANGED <<onevars, avars, tvars>>

\* One iteration of loop() that finds a byte: lines 88-97 (180-186): the
\* encoder is read, the byte is read, delay(10) starts.
SRead(s, values) ==
    /\ spc[s] = "idle" /\ srx[s] # <<>>
    /\ \E r \in Readings(s, values) :
          /\ raw' = [raw EXCEPT ![s] = IF encoderFound[s] THEN r ELSE @]
          /\ turns' = IF encoderFound[s] /\ r # raw[s] THEN turns + 1 ELSE turns
          /\ sEncoderPosition' =
               [sEncoderPosition EXCEPT ![s] =
                   IF encoderFound[s] THEN ToInt16(r) ELSE @]
    /\ sByteReceived' = [sByteReceived EXCEPT ![s] = Head(srx[s])]
    /\ srx' = [srx EXCEPT ![s] = Tail(srx[s])]
    /\ swake' = [swake EXCEPT ![s] = now + SlaveReadSettleMs]
    /\ spc' = [spc EXCEPT ![s] = "rdelay"]
    /\ UNCHANGED <<now, mvars, mrx, sdir, encoderId, encoderFound, firmware,
                   hvars>>
    /\ UNCHANGED <<onevars, avars, tvars>>

\* Lines 100-112 (189-201): the byte is the identity: transmit mode, the
\* normalised position is written and flushed, delay(10) starts.
SAnswer(s) ==
    /\ spc[s] = "rdelay" /\ now >= swake[s]
    /\ Addressed(s)
    /\ LET p == IF firmware[s] = "static"
                THEN NormaliseStatic(sEncoderPosition[s])
                ELSE Normalise(sEncoderPosition[s])
       IN  /\ sEncoderPosition' = [sEncoderPosition EXCEPT ![s] = p]
           /\ SlaveWrite(s, ToByte(p))
           /\ replies' = [replies EXCEPT ![s] =
                           [raw |-> raw[s], byte |-> ToByte(p), n |-> @.n + 1]]
    /\ sdir' = [sdir EXCEPT ![s] = RS485_TRANSMIT]
    /\ swake' = [swake EXCEPT ![s] = now + SlaveHoldMs]
    /\ spc' = [spc EXCEPT ![s] = "hold"]
    /\ UNCHANGED <<now, mvars, sByteReceived, encoderId, encoderFound,
                   firmware, raw, turns, sent, mlog, turnLog, changed, drawn,
                   passes,
                   renders>>
    /\ UNCHANGED <<onevars, avars, tvars>>

\* Lines 100, 114-116 (189, 203-205): any other byte: nothing is done.
SDiscard(s) ==
    /\ spc[s] = "rdelay" /\ now >= swake[s]
    /\ ~Addressed(s)
    /\ spc' = [spc EXCEPT ![s] = "idle"]
    /\ swake' = [swake EXCEPT ![s] = 0]
    /\ UNCHANGED <<now, mvars, mrx, srx, sdir, sByteReceived,
                   sEncoderPosition, encoderId, encoderFound, firmware, raw,
                   turns, hvars>>
    /\ UNCHANGED <<onevars, avars, tvars>>

\* A responder that keeps driving the bus after its reply.
StaysDriving == RS485_TRANSMIT

\* Line 113 (202): the direction after the reply.
AfterReplyDir == RS485_RECEIVE

\* Line 113 (202): back to receive mode.
SRelease(s) ==
    /\ spc[s] = "hold" /\ now >= swake[s]
    /\ sdir' = [sdir EXCEPT ![s] = AfterReplyDir]
    /\ spc' = [spc EXCEPT ![s] = "idle"]
    /\ swake' = [swake EXCEPT ![s] = 0]
    /\ UNCHANGED <<now, mvars, mrx, srx, sByteReceived,
                   sEncoderPosition, encoderId, encoderFound, firmware, raw,
                   turns, hvars>>
    /\ UNCHANGED <<onevars, avars, tvars>>

\* The responder loses power (or its cable) while it spins in loop().  Only
\* the next address byte can tell, so the step is taken between two calls of
\* the master's loop().
SUnplug(s) ==
    /\ spc[s] = "idle" /\ srx[s] = <<>>
    /\ mpc = "loop"
    /\ Cardinality({t \in Chan : spc[t] = "gone"}) < MaxUnplug
    /\ spc' = [spc EXCEPT ![s] = "gone"]
    /\ UNCHANGED <<now, mvars, mrx, srx, swake, sdir, sByteReceived,
                   sEncoderPosition, encoderId, encoderFound, firmware, raw,
                   turns, hvars>>
    /\ UNCHANGED <<onevars, avars, tvars>>

\* Another node writes byte b while the responders listen.
EnvByte(b) ==
    /\ now < RespMaxTime
    /\ MasterWrite(b)
    /\ UNCHANGED <<now, mvars, svars, hvars>>
    /\ UNCHANGED <<onevars, avars, tvars>>

\* ---------------------------------------------------- single-slave master
\* part_001, loop(), line 72.
OnePassDue == lastCheck + timeBetweenChecksMsOne < now

\* Lines 72-77: the poll is due: transmit mode, 'A' is written, delay(1).
OneTx(horizon) ==
    /\ MasterAt("loop1") /\ now < horizon
    /\ OnePassDue
    /\ mdir' = RS485_TRANSMIT
    /\ MasterWrite(OneAddress)
    /\ sent' = [sent EXCEPT ![0] = @ + 1]
    /\ mwake' = now + TxSettleMs
    /\ mpc' = "txd1"
    /\ UNCHANGED <<now, lastCheck, encoderPosition, lastChanged,
                   encoderExists, byteReceived, currRainbowHue, encoderIdx,
                   startTime, strip, svars, mlog, turnLog, changed, drawn,
                   replies, passes, renders, onevars, avars, tvars>>

\* Line 72: the poll is not due.
OneIdle(horizon) ==
    /\ MasterAt("loop1") /\ now < horizon
    /\ ~OnePassDue
    /\ mpc' = "color1"
    /\ mwake' = 0
    /\ UNCHANGED <<now, lastCheck, encoderPosition, lastChanged,
                   encoderExists, byteReceived, currRainbowHue, encoderIdx,
                   startTime, mdir, strip, mrx, srx, svars, hvars, onevars,
                   avars, tvars>>

\* Line 78: back to receive mode; the wait of lines 80-83 begins.
OneTxDone ==
    /\ MasterAt("txd1")
    /\ mdir' = RS485_RECEIVE
    /\ waitFrom' = now
    /\ mpc' = "wait1"
    /\ mwake' = 0
    /\ UNCHANGED <<now, lastCheck, encoderPosition, lastChanged,
                   encoderExists, byteReceived, currRainbowHue, encoderIdx,
                   startTime, strip, mrx, srx, svars, hvars,
                   stripOneEncoderPos, lastChangeOne, avars, tvars>>

\* Lines 80-83: while (!Serial1.available()) delay(10); nothing else ends
\* this loop.
OneWait ==
    /\ MasterAt("wait1") /\ mrx = <<>>
    /\ mwake' = now + PollStepMs
    /\ UNCHANGED <<now, mpc, lastCheck, encoderPosition, lastChanged,
                   encoderExists, byteReceived, currRainbowHue, encoderIdx,
                   startTime, mdir, strip, mrx, srx, svars, hvars, onevars,
                   avars, tvars>>

\* Lines 85-86: the byte is read, delay(10).
OneRead ==
    /\ MasterAt("wait1") /\ mrx # <<>>
    /\ byteReceived' = Head(mrx)
    /\ mrx' = Tail(mrx)
    /\ mwake' = now + ReadSettleMs
    /\ mpc' = "rd1"
    /\ UNCHANGED <<now, lastCheck, encoderPosition, lastChanged,
                   encoderExists, currRainbowHue, encoderIdx, startTime,
                   mdir, strip, srx, svars, hvars, onevars, avars, tvars>>

\* Lines 87-93: a new position is stored and stamped; lastCheck.
OneStore ==
    /\ MasterAt("rd1")
    /\ IF stripOneEncoderPos # byteReceived
       THEN /\ stripOneEncoderPos' = byteReceived
            /\ lastChangeOne' = now
       ELSE UNCHANGED <<stripOneEncoderPos, lastChangeOne>>
    /\ lastCheck' = now
    /\ passes' = passes + 1
    /\ mpc' = "color1"
    /\ mwake' = 0
    /\ UNCHANGED <<now, encoderPosition, lastChanged, encoderExists,
                   byteReceived, currRainbowHue, encoderIdx, startTime, mdir,
                   strip, mrx, srx, svars, sent, mlog, turnLog, changed,
                   drawn, replies, renders, waitFrom, avars, tvars>>

\* Line 97.
OneStale == lastChangeOne + timeToRainbowMs < now

\* Lines 97-105: the strip is painted and shown.
OneColor ==
    /\ MasterAt("color1")
    /\ strip' = IF OneStale
                THEN [kind |-> "rainbow", val |-> ToUint16(currRainbowHue)]
                ELSE [kind |-> "fill", val |-> stripOneEncoderPos]
    /\ drawn' = [drawn EXCEPT ![0] =
                   [what |-> strip'.kind, at |-> now, idx |-> strip'.val]]
    /\ mwake' = now + ShowMs
    /\ mpc' = "hue1"
    /\ UNCHANGED <<now, lastCheck, encoderPosition, lastChanged,
                   encoderExists, byteReceived, currRainbowHue, encoderIdx,
                   startTime, mdir, mrx, srx, svars, sent, mlog, turnLog,
                   changed, replies, passes, renders, onevars, avars, tvars>>

\* Lines 108-112.
OneHue ==
    /\ MasterAt("hue1")
    /\ currRainbowHue' = NextHue(currRainbowHue)
    /\ renders' = renders + 1
    /\ mpc' = "loop1"
    /\ mwake' = 0
    /\ UNCHANGED <<now, lastCheck, encoderPosition, lastChanged,
                   encoderExists, byteReceived, encoderIdx, startTime, mdir,
                   strip, mrx, srx, svars, sent, mlog, turnLog, changed,
                   drawn, replies, passes, onevars, avars, tvars>>

\* --------------------------------------------------------- arm controller
\* Integer division of C++ (the quotient is truncated towards zero), b > 0.
CDiv(a, b) == IF a >= 0 THEN a \div b ELSE -((-a) \div b)

\* readEncoders, line 317: map(pos, 0, 255, 0, NUM_COLOR_MAPPINGS - 1),
\* stored in an int.
MapIndex(p) == ToInt16(CDiv(p * (NUM_COLOR_MAPPINGS - 1), MapInMax))

ArmAt(pc) == apc = pc /\ now >= awake

\* readEncoders, line 307.
SenseDue == lastSenseTimeMs + NUM_MS_BEFORE_SENSOR_REREAD < now

\* loop() calls readEncoders() and the sensors are due.
AReadDue(horizon) ==
    /\ ArmAt("loop") /\ now < horizon
    /\ SenseDue
    /\ apc' = "read" /\ currArm' = 0
    /\ awake' = 0
    /\ UNCHANGED <<now, mvars, mrx, srx, svars, hvars, onevars, tvars,
                   currentColorIndex, currentEncoderPos, isActive,
                   activedTimeMs, swap, lastSenseTimeMs, aturns, paint>>

\* loop() calls readEncoders() and the sensors are not due: color() is next.
AReadIdle(horizon) ==
    /\ ArmAt("loop") /\ now < horizon
    /\ ~SenseDue
    /\ apc' = "color" /\ currArm' = 0
    /\ awake' = 0
    /\ UNCHANGED <<now, mvars, mrx, srx, svars, hvars, onevars, tvars,
                   currentColorIndex, currentEncoderPos, isActive,
                   activedTimeMs, swap, lastSenseTimeMs, aturns, paint>>

\* What getEncoderPosition() can return for arm a: the count last read, or
\* a new one while a knob is still turned.
ArmReadings(a, values, budget) ==
    IF aturns < budget THEN values \cup {currentEncoderPos[a]}
    ELSE {currentEncoderPos[a]}

\* readEncoders, lines 326 and 331: the arm has been active for too long.
ArmStale(a) == activedTimeMs[a] + NUM_MS_TO_RAINBOW < now

\* readEncoders, lines 313-336, for arm currArm, up to the delay(10).
AReadArm(values, budget) ==
    /\ ArmAt("read") /\ currArm < NUM_ARMS
    /\ \E r \in ArmReadings(currArm, values, budget) :
         LET a == currArm
             currEncoderPos == ToInt16(r)
             newPossibleColorIndex == MapIndex(currEncoderPos)
         IN  /\ aturns' = IF r # currentEncoderPos[a] THEN aturns + 1
                          ELSE aturns
             /\ IF currEncoderPos # currentEncoderPos[a]
                THEN /\ currentEncoderPos' =
                          [currentEncoderPos EXCEPT ![a] = currEncoderPos]
                     /\ IF newPossibleColorIndex # currentColorIndex[a]
                        THEN /\ currentColorIndex' =
                                  [currentColorIndex EXCEPT
                                      ![a] = newPossibleColorIndex]
                             /\ isActive' = [isActive EXCEPT ![a] = TRUE]
                             /\ activedTimeMs' =
                                  [activedTimeMs EXCEPT ![a] = now]
                        ELSE /\ isActive' =
                                  [isActive EXCEPT
                                      ![a] = IF ArmStale(a) THEN FALSE ELSE @]
                             /\ UNCHANGED <<currentColorIndex, activedTimeMs>>
                ELSE /\ isActive' =
                          [isActive EXCEPT
                              ![a] = IF ArmStale(a) THEN FALSE ELSE @]
                     /\ UNCHANGED <<currentEncoderPos, currentColorIndex,
                                    activedTimeMs>>
    /\ currArm' = currArm + 1
    /\ awake' = now + ArmReadSettleMs
    /\ UNCHANGED <<now, mvars, mrx, srx, svars, hvars, onevars, tvars, apc,
                   swap,
                   lastSenseTimeMs, paint>>

\* readEncoders, line 339, after the last arm.
AReadEnd ==
    /\ ArmAt("read") /\ currArm >= NUM_ARMS
    /\ lastSenseTimeMs' = now
    /\ apc' = "color" /\ currArm' = 0
    /\ awake' = 0
    /\ UNCHANGED <<now, mvars, mrx, srx, svars, hvars, onevars, tvars,
                   currentColorIndex, currentEncoderPos, isActive,
                   activedTimeMs, swap, aturns, paint>>

\* twinkle, lines 360-384: which table the even pixels are painted from
\* (the odd pixels get the other one) and the index used.
Twinkled(a) ==
    [what |-> "twinkle", evenComp |-> swap[a], idx |-> currentColorIndex[a]]

\* rainbow, line 349.
Rainbowed ==
    [what |-> "rainbow", evenComp |-> FALSE, idx |-> ToUint16(currRainbowHue)]

\* What a read of colors[k] or compColors[k] can yield: the entry, or for
\* an index outside the table whatever the memory next to it holds.
StrayColors == {0, 16777215}

TableRead(table, k) ==
    IF k \in 0 .. (NUM_COLOR_MAPPINGS - 1) THEN {table[k + 1]}
    ELSE StrayColors

\* twinkle, lines 360-384 (test: lines 98-122): the strip after the pixel
\* loop, with c read from colors[] and cc from compColors[].
TwinklePixels(sw, c, cc) ==
    [i \in Pixel |->
        IF i % 2 = 0 THEN (IF sw THEN Rgb(cc) ELSE Rgb(c))
        ELSE (IF sw THEN Rgb(c) ELSE Rgb(cc))]

\* rainbow, line 349: strip.rainbow(currRainbowHue) spreads one turn of the
\* colour wheel over the strip, starting at the 16-bit hue.
RainbowPixels ==
    [i \in Pixel |->
        Hue(ToUint16(currRainbowHue + (i * 65536) \div LED_COUNT))]

\* The last two outputs of an arm.
Keep2(q) == IF Len(q) > 2 THEN Tail(q) ELSE q

\* The flag color() consults for arm a, line 399.
UsesTwinkle(a) == isActive[a]

\* A twinkle that forgets to flip the parity.
KeepSwap(b) == b

\* twinkle, line 386: the parity after a call.
NextSwap(b) == ~b

\* color(), lines 397-409, for arm currArm: twinkle or rainbow, show().
AColorArm ==
    /\ ArmAt("color") /\ currArm < NUM_ARMS
    /\ LET a == currArm
       IN  IF UsesTwinkle(a)
           THEN /\ paint' = [paint EXCEPT ![a] = Keep2(Append(@, Twinkled(a)))]
                /\ \E c \in TableRead(Colors, currentColorIndex[a]),
                      cc \in TableRead(CompColors, currentColorIndex[a]) :
                     pixels' = [pixels EXCEPT
                                   ![a] = TwinklePixels(swap[a], c, cc)]
                /\ swap' = [swap EXCEPT ![a] = NextSwap(@)]
           ELSE /\ paint' = [paint EXCEPT ![a] = Keep2(Append(@, Rainbowed))]
                /\ pixels' = [pixels EXCEPT ![a] = RainbowPixels]
                /\ UNCHANGED swap
    /\ currArm' = currArm + 1
    /\ awake' = now + ArmShowMs
    /\ UNCHANGED <<now, mvars, mrx, srx, svars, hvars, onevars, apc,
                   currSeq, startTimeMs, seqLog, pot,
                   currentColorIndex, currentEncoderPos, isActive,
                   activedTimeMs, lastSenseTimeMs, aturns>>

\* color(), lines 411-415.
ArmNextHue(h) ==
    IF h + RAINBOW_HUE_INC_AMOUNT >= MAX_RAINBOW_HUE THEN 0
    ELSE h + RAINBOW_HUE_INC_AMOUNT

\* color(), lines 411-415, after the last arm; loop() is called again.
AHue ==
    /\ ArmAt("color") /\ currArm >= NUM_ARMS
    /\ currRainbowHue' = ArmNextHue(currRainbowHue)
    /\ renders' = renders + 1
    /\ apc' = "loop" /\ currArm' = 0
    /\ awake' = 0
    /\ UNCHANGED <<now, mpc, mwake, lastCheck, encoderPosition, lastChanged,
                   encoderExists, byteReceived, encoderIdx, startTime, mdir,
                   strip, mrx, srx, svars, sent, mlog, turnLog, changed,
                   drawn, replies, passes, onevars, tvars, currentColorIndex,
                   currentEncoderPos, isActive, activedTimeMs, swap,
                   lastSenseTimeMs, aturns, paint>>

\* --------------------------------------------------- arm controller v0.1
\* readSensors, line 100: map(analogRead(pin), 0, 1023, 0,
\* NUM_COLOR_MAPPINGS - 1), stored in an int.
MapAnalog(r) == ToInt16(CDiv(r * (NUM_COLOR_MAPPINGS - 1), AnalogMax))

\* readSensors, line 94.
A1ReadDue(horizon) ==
    /\ ArmAt("loop0") /\ now < horizon
    /\ SenseDue
    /\ apc' = "read0" /\ currArm' = 0
    /\ awake' = 0
    /\ UNCHANGED <<now, mvars, mrx, srx, svars, hvars, onevars, tvars,
                   currentColorIndex, currentEncoderPos, isActive,
                   activedTimeMs, swap, lastSenseTimeMs, aturns, paint>>

A1ReadIdle(horizon) ==
    /\ ArmAt("loop0") /\ now < horizon
    /\ ~SenseDue
    /\ apc' = "color0" /\ currArm' = 0
    /\ awake' = 0
    /\ UNCHANGED <<now, mvars, mrx, srx, svars, hvars, onevars, tvars,
                   currentColorIndex, currentEncoderPos, isActive,
                   activedTimeMs, swap, lastSenseTimeMs, aturns, paint>>

\* What analogRead() can return for arm a: the level of its input, which
\* changes while a knob is still turned.
PotReadings(a, values, budget) ==
    IF aturns < budget THEN values \cup {pot[a]} ELSE {pot[a]}

\* readSensors, lines 97-111, for arm currArm.
A1ReadArm(values, budget) ==
    /\ ArmAt("read0") /\ currArm < NUM_ARMS
    /\ \E r \in PotReadings(currArm, values, budget) :
         LET a == currArm
             newPossibleColorIndex == MapAnalog(r)
         IN  /\ aturns' = IF r # pot[a] THEN aturns + 1 ELSE aturns
             /\ pot' = [pot EXCEPT ![a] = r]
             /\ IF newPossibleColorIndex # currentColorIndex[a]
                THEN /\ currentColorIndex' =
                          [currentColorIndex EXCEPT
                              ![a] = newPossibleColorIndex]
                     /\ isActive' = [isActive EXCEPT ![a] = TRUE]
                     /\ activedTimeMs' = [activedTimeMs EXCEPT ![a] = now]
                ELSE /\ isActive' =
                          [isActive EXCEPT
                              ![a] = IF ArmStale(a) THEN FALSE ELSE @]
                     /\ UNCHANGED <<currentColorIndex, activedTimeMs>>
    /\ currArm' = currArm + 1
    /\ awake' = 0
    /\ UNCHANGED <<now, mvars, mrx, srx, svars, hvars, onevars, pixels,
                   currSeq, startTimeMs, seqLog, apc, currentEncoderPos, swap,
                   lastSenseTimeMs, paint>>

\* readSensors, line 113, after the last arm.
A1ReadEnd ==
    /\ ArmAt("read0") /\ currArm >= NUM_ARMS
    /\ lastSenseTimeMs' = now
    /\ apc' = "color0" /\ currArm' = 0
    /\ awake' = 0
    /\ UNCHANGED <<now, mvars, mrx, srx, svars, hvars, onevars, tvars,
                   currentColorIndex, currentEncoderPos, isActive,
                   activedTimeMs, swap, aturns, paint>>

\* twinkle of v0.1, lines 134-157: the strip after the pixel loop, with c
\* read from colors[]; the other colour is the literal 0xFF3A06.
TwinklePixelsV1(sw, c) ==
    [i \in Pixel |->
        IF i % 2 = 0 THEN (IF sw THEN Rgb(TwinkleLiteralV1) ELSE Rgb(c))
        ELSE (IF sw THEN Rgb(c) ELSE Rgb(TwinkleLiteralV1))]

\* color() of v0.1, lines 170-182, for arm currArm.
A1ColorArm ==
    /\ ArmAt("color0") /\ currArm < NUM_ARMS
    /\ LET a == currArm
       IN  IF isActive[a]
           THEN /\ paint' = [paint EXCEPT ![a] = Keep2(Append(@, Twinkled(a)))]
                /\ \E c \in TableRead(Colors, currentColorIndex[a]) :
                     pixels' = [pixels EXCEPT
                                   ![a] = TwinklePixelsV1(swap[a], c)]
                /\ swap' = [swap EXCEPT ![a] = ~@]
           ELSE /\ paint' = [paint EXCEPT ![a] = Keep2(Append(@, Rainbowed))]
                /\ pixels' = [pixels EXCEPT ![a] = RainbowPixels]
                /\ UNCHANGED swap
    /\ currArm' = currArm + 1
    /\ awake' = now + ArmShowMs
    /\ UNCHANGED <<now, mvars, mrx, srx, svars, hvars, onevars, apc,
                   currSeq, startTimeMs, seqLog, pot,
                   currentColorIndex, currentEncoderPos, isActive,
                   activedTimeMs, lastSenseTimeMs, aturns>>

\* color() of v0.1, lines 184-188, after the last arm.
A1Hue ==
    /\ ArmAt("color0") /\ currArm >= NUM_ARMS
    /\ currRainbowHue' = ArmNextHue(currRainbowHue)
    /\ renders' = renders + 1
    /\ apc' = "loop0" /\ currArm' = 0
    /\ awake' = 0
    /\ UNCHANGED <<now, mpc, mwake, lastCheck, encoderPosition, lastChanged,
                   encoderExists, byteReceived, encoderIdx, startTime, mdir,
                   strip, mrx, srx, svars, sent, mlog, turnLog, changed,
                   drawn, replies, passes, onevars, tvars, currentColorIndex,
                   currentEncoderPos, isActive, activedTimeMs, swap,
                   lastSenseTimeMs, aturns, paint>>

\* ------------------------------------------------------ LED test sequencer
\* loop() of the test, line 160: is the next sequence due?
SeqDue == now > startTimeMs + TEST_DELAY_MS

\* loop() of the test, lines 163-167: the sequence after q.
NextSeq(q) == IF q + 1 > NUM_COLOR_MAPPINGS THEN 0 ELSE q + 1

\* The sequences shown so far, with q being shown now.
Logged(q) ==
    IF seqLog # <<>> /\ seqLog[Len(seqLog)] = q THEN seqLog
    ELSE Append(seqLog, q)

\* loop() of the test, lines 160-168: the next sequence starts.
TAdvance(horizon) ==
    /\ ArmAt("tloop") /\ now < horizon
    /\ SeqDue
    /\ startTimeMs' = now
    /\ currSeq' = NextSeq(currSeq)
    /\ seqLog' = Logged(NextSeq(currSeq))
    /\ apc' = "tcolor" /\ currArm' = 0
    /\ awake' = 0
    /\ UNCHANGED <<now, mvars, mrx, srx, svars, hvars, onevars, pixels, pot,
                   currentColorIndex, currentEncoderPos, isActive,
                   activedTimeMs, swap, lastSenseTimeMs, aturns, paint>>

\* loop() of the test, line 160: the current sequence goes on.
TKeep(horizon) ==
    /\ ArmAt("tloop") /\ now < horizon
    /\ ~SeqDue
    /\ seqLog' = Logged(currSeq)
    /\ apc' = "tcolor" /\ currArm' = 0
    /\ awake' = 0
    /\ UNCHANGED <<now, mvars, mrx, srx, svars, hvars, onevars, pixels, pot,
                   currSeq, startTimeMs,
                   currentColorIndex, currentEncoderPos, isActive,
                   activedTimeMs, swap, lastSenseTimeMs, aturns, paint>>

\* twinkle of the test, lines 98-122: the table index is currSeq.
TestTwinkled(a) ==
    [what |-> "twinkle", evenComp |-> swap[a], idx |-> currSeq]

\* testColor, line 136: twinkle or rainbow?
SeqTwinkles == currSeq < NUM_COLOR_MAPPINGS

\* testColor, lines 134-146, for arm currArm.
TColorArm ==
    /\ ArmAt("tcolor") /\ currArm < NUM_ARMS
    /\ LET a == currArm
       IN  IF SeqTwinkles
           THEN /\ paint' = [paint EXCEPT
                                ![a] = Keep2(Append(@, TestTwinkled(a)))]
                /\ \E c \in TableRead(Colors, currSeq),
                      cc \in TableRead(CompColors, currSeq) :
                     pixels' = [pixels EXCEPT
                                   ![a] = TwinklePixels(swap[a], c, cc)]
                /\ swap' = [swap EXCEPT ![a] = ~@]
           ELSE /\ paint' = [paint EXCEPT ![a] = Keep2(Append(@, Rainbowed))]
                /\ pixels' = [pixels EXCEPT ![a] = RainbowPixels]
                /\ UNCHANGED swap
    /\ currArm' = currArm + 1
    /\ awake' = now + ArmShowMs
    /\ UNCHANGED <<now, mvars, mrx, srx, svars, hvars, onevars, apc,
                   currSeq, startTimeMs, seqLog, pot,
                   currentColorIndex, currentEncoderPos, isActive,
                   activedTimeMs, lastSenseTimeMs, aturns>>

\* testColor, lines 148-152, after the last arm; loop() is called again.
THue ==
    /\ ArmAt("tcolor") /\ currArm >= NUM_ARMS
    /\ currRainbowHue' = ArmNextHue(currRainbowHue)
    /\ renders' = renders + 1
    /\ apc' = "tloop" /\ currArm' = 0
    /\ awake' = 0
    /\ UNCHANGED <<now, mpc, mwake, lastCheck, encoderPosition, lastChanged,
                   encoderExists, byteReceived, encoderIdx, startTime, mdir,
                   strip, mrx, srx, svars, sent, mlog, turnLog, changed,
                   drawn, replies, passes, onevars, tvars, currentColorIndex,
                   currentEncoderPos, isActive, activedTimeMs, swap,
                   lastSenseTimeMs, aturns, paint>>

\* ------------------------------------------------------------------ time
\* The master has stopped: no pass of loop() starts at or after the horizon.
Halted(horizon) ==
    mpc \in {"loop", "loop1"} /\ now >= horizon /\ now >= mwake

\* The arm controller has something to do right now.
ArmReady(horizon) ==
    /\ apc # "off" /\ now >= awake
    /\ ~(apc \in {"loop", "loop0", "tloop"} /\ now >= horizon)

MasterReady(horizon) == mpc # "off" /\ now >= mwake /\ ~Halted(horizon)

SlaveTimed(s) == spc[s] \in {"rdelay", "hold"}

\* A responder that has something to do right now: the end of a delay, or a
\* byte waiting while it spins in loop().
SlaveReady(s) ==
    \/ SlaveTimed(s) /\ now >= swake[s]
    \/ spc[s] = "idle" /\ srx[s] # <<>>

Pending(horizon) ==
    {t \in {mwake} : mwake > now}
        \cup {swake[s] : s \in {x \in Chan : SlaveTimed(x)}}
        \cup {t \in {awake} : awake > now}

\* The longest a call of loop() that started before the horizon can last.
PassBudgetMs ==
    NUM_ENCODERS * (TxSettleMs + timeToWaitMs + 2 * PollStepMs + ReadSettleMs
                       + ExchangeTailMs + ShowMs) + LoopMs

\* Time passes up to the end of the earliest running delay.  The clock is
\* capped after the end of the last call of loop() that the horizon admits.
Tick(horizon) ==
    /\ ~MasterReady(horizon)
    /\ ~ArmReady(horizon)
    /\ \A s \in Chan : ~SlaveReady(s)
    /\ Pending(horizon) # {}
    /\ now' = Min(Pending(horizon))
    /\ now' <= horizon + PassBudgetMs
    /\ UNCHANGED <<mvars, mrx, srx, svars, hvars>>
    /\ UNCHANGED <<onevars, avars, tvars>>

\* --------------------------------------------------------- specification
Master(horizon) ==
    \/ MLoopDue(horizon) \/ MLoopIdle(horizon)
    \/ MForSkip \/ MTx \/ MTxDone \/ MWaitNone \/ MWaitMore \/ MGiveUp
    \/ MRead \/ MStore \/ MNext \/ MForEnd \/ MColor \/ MHue

Responder(s, values) ==
    SRead(s, values) \/ SAnswer(s) \/ SDiscard(s) \/ SRelease(s)

Next ==
    \/ Master(MaxTime)
    \/ \E s \in Chan : SBoot(s) \/ Responder(s, RawValues)
    \/ Tick(MaxTime)

Spec == Init /\ [][Next]_vars

\* Long runs: every responder is either running or not connected when the
\* master starts, and running responders may lose power.
InitStale ==
    /\ ArmsOff
    /\ InitMaster("loop", LoopStart)
    /\ InitSlaves({"off", "idle"})

NextStale ==
    \/ Master(StaleMaxTime)
    \/ \E s \in Chan : Responder(s, RawValues) \/ SUnplug(s)
    \/ Tick(StaleMaxTime)

SpecStale == InitStale /\ [][NextStale]_vars

\* The bus with the scheduling that the hardware guarantees: the master's
\* and the responders' programs keep running and time passes.  Nothing
\* obliges a responder to leave setup().
NextLive ==
    \/ Master(LiveMaxTime)
    \/ \E s \in Chan : SBoot(s) \/ Responder(s, RawValues)
    \/ Tick(LiveMaxTime)

SpecLive ==
    /\ Init /\ [][NextLive]_vars
    /\ WF_vars(Master(LiveMaxTime))
    /\ WF_vars(\E s \in Chan : Responder(s, RawValues))
    /\ WF_vars(Tick(LiveMaxTime))

\* Responder 0 on its own, in either firmware, the master not connected:
\* the bytes it hears are written by some other node.
InitResp ==
    /\ ArmsOff
    /\ InitMaster("off", {0})
    /\ spc = [s \in Chan |-> IF s = 0 THEN "idle" ELSE "off"]
    /\ swake = [s \in Chan |-> 0]
    /\ sdir = [s \in Chan |-> RS485_RECEIVE]
    /\ srx = [s \in Chan |-> <<>>]
    /\ sByteReceived = [s \in Chan |-> 0]
    /\ firmware \in [Chan -> {"dynamic", "static"}]
    /\ encoderFound \in [Chan -> BOOLEAN]
    /\ encoderId \in [Chan -> {ENCODER_IDS(i) : i \in Chan} \cup UnfoundIds]
    /\ raw \in [Chan -> RespRawValues]
    /\ \A s \in Chan :
          /\ s # 0 => /\ firmware[s] = "dynamic" /\ encoderFound[s]
                      /\ encoderId[s] = ENCODER_IDS(s) /\ raw[s] = 0
          /\ firmware[s] = "static" =>
                 encoderFound[s] /\ encoderId[s] = SLAVE_ENCODER_ID
          /\ encoderFound[s] <=> encoderId[s] \notin UnfoundIds
          /\ ~encoderFound[s] => raw[s] = 0
    /\ sEncoderPosition = [s \in Chan |-> ToInt16(raw[s])]
    /\ turns = 0
    /\ replies = [s \in Chan |-> NoReply]

NextResp ==
    \/ \E s \in Chan : Responder(s, RespRawValues)
    \/ \E b \in EnvBytes : EnvByte(b)
    \/ Tick(RespMaxTime)

SpecResp == InitResp /\ [][NextResp]_vars

\* The single-slave master with its responder running or not connected; a
\* second node may share the bus.
OneMaster(horizon) ==
    \/ OneTx(horizon) \/ OneIdle(horizon) \/ OneTxDone \/ OneWait
    \/ OneRead \/ OneStore \/ OneColor \/ OneHue

InitOne ==
    /\ ArmsOff
    /\ InitMaster("loop1", LoopStart)
    /\ InitSlaves({"off", "idle"})

NextOne ==
    \/ OneMaster(OneMaxTime)
    \/ \E s \in Chan : Responder(s, RawValues)
    \/ Tick(OneMaxTime)

SpecOne == InitOne /\ [][NextOne]_vars

\* The arm controller on its own.
ArmController(horizon, values, budget) ==
    \/ AReadDue(horizon) \/ AReadIdle(horizon) \/ AReadArm(values, budget)
    \/ AReadEnd \/ AColorArm \/ AHue

InitArm ==
    /\ InitArms
    /\ InitMaster("off", {0})
    /\ InitSlaves({"off"})

NextArm ==
    \/ ArmController(ArmMaxTime, ArmValues, MaxArmTurns)
    \/ Tick(ArmMaxTime)

SpecArm == InitArm /\ [][NextArm]_vars

\* The arm controller v0.1: globals and setup(), lines 50-83.
InitArmsV1 ==
    /\ apc = "loop0"
    /\ awake = 0
    /\ currArm = 0
    /\ currentColorIndex = [a \in Arm |-> NUM_COLOR_MAPPINGS + 1]
    /\ currentEncoderPos = [a \in Arm |-> 0]
    /\ isActive = [a \in Arm |-> FALSE]
    /\ activedTimeMs = [a \in Arm |-> 0]
    /\ swap = [a \in Arm |-> FALSE]
    /\ lastSenseTimeMs = 0
    /\ aturns = 0
    /\ paint = [a \in Arm |-> <<>>]
    /\ StripsDark

ArmControllerV1(horizon, values, budget) ==
    \/ A1ReadDue(horizon) \/ A1ReadIdle(horizon) \/ A1ReadArm(values, budget)
    \/ A1ReadEnd \/ A1ColorArm \/ A1Hue

\* Either version of the arm controller on its own.
InitTwinkle ==
    /\ InitArms \/ InitArmsV1
    /\ InitMaster("off", {0})
    /\ InitSlaves({"off"})

NextTwinkle ==
    \/ ArmController(TwinkleMaxTime, ArmValues, MaxArmTurns)
    \/ ArmControllerV1(TwinkleMaxTime, PotValues, MaxArmTurns)
    \/ Tick(TwinkleMaxTime)

SpecTwinkle == InitTwinkle /\ [][NextTwinkle]_vars

\* The LED test sequencer: globals and setup(), lines 45-79.
InitTest ==
    /\ apc = "tloop"
    /\ awake = 0
    /\ currArm = 0
    /\ currentColorIndex = [a \in Arm |-> NUM_COLOR_MAPPINGS + 1]
    /\ currentEncoderPos = [a \in Arm |-> 0]
    /\ isActive = [a \in Arm |-> FALSE]
    /\ activedTimeMs = [a \in Arm |-> 0]
    /\ swap = [a \in Arm |-> FALSE]
    /\ lastSenseTimeMs = 0
    /\ aturns = 0
    /\ paint = [a \in Arm |-> <<>>]
    /\ StripsDark
    /\ InitMaster("off", {0})
    /\ InitSlaves({"off"})

NextTest ==
    \/ TAdvance(TestMaxTime) \/ TKeep(TestMaxTime) \/ TColorArm \/ THue
    \/ Tick(TestMaxTime)

SpecTest == InitTest /\ [][NextTest]_vars

\* The bus with every responder running when the master starts, each with
\* its encoder found or not: setup() goes on to loop() either way (lines
\* 41-83), with encoderId left as initialised when no encoder was found.
InitUnfound ==
    /\ ArmsOff
    /\ InitMaster("loop", LoopStart)
    /\ spc = [s \in Chan |-> "idle"]
    /\ swake = [s \in Chan |-> 0]
    /\ sdir = [s \in Chan |-> RS485_RECEIVE]
    /\ srx = [s \in Chan |-> <<>>]
    /\ sByteReceived = [s \in Chan |-> 0]
    /\ sEncoderPosition = [s \in Chan |-> 0]
    /\ encoderFound \in [Chan -> BOOLEAN]
    /\ encoderId \in [Chan -> {ENCODER_IDS(i) : i \in Chan} \cup UnfoundIds]
    /\ \A s \in Chan :
          IF encoderFound[s] THEN encoderId[s] = ENCODER_IDS(s)
          ELSE encoderId[s] \in UnfoundIds
    /\ firmware = [s \in Chan |-> "dynamic"]
    /\ raw = [s \in Chan |-> 0]
    /\ turns = 0
    /\ replies = [s \in Chan |-> NoReply]

NextUnfound ==
    \/ Master(UnfoundMaxTime)
    \/ \E s \in Chan : Responder(s, RawValues)
    \/ Tick(UnfoundMaxTime)

SpecUnfound == InitUnfound /\ [][NextUnfound]_vars

\* The arm controller with knobs turned below 0 and above 255.
NextArmWide ==
    \/ ArmController(WideMaxTime, WideArmValues, MaxArmTurns)
    \/ Tick(WideMaxTime)

SpecArmWide == InitArm /\ [][NextArmWide]_vars

\* Long runs of either controller, up to the wrap of the rainbow hue: the
\* master with each responder running or not connected, or the arm
\* controller.
InitHue ==
    \/ /\ ArmsOff
       /\ InitMaster("loop", LoopStart)
       /\ InitSlaves({"off", "idle"})
    \/ InitArm

NextHueRun ==
    \/ Master(HueMaxTime)
    \/ \E s \in Chan : Responder(s, HueRawValues)
    \/ ArmController(ArmHueMaxTime, HueArmValues, MaxHueTurns)
    \/ Tick(HueMaxTime)

SpecHue == InitHue /\ [][NextHueRun]_vars

\* ================================================================ claims

\* C1: once an exchange with channel i has timed out, encoderExists[i] is
\* false in every later state and no address byte is written for channel i
\* again, however many scheduler passes follow.
C1_AbsentForever ==
    [][\A i \in Chan :
          ~encoderExists[i] => (~encoderExists'[i] /\ sent'[i] = sent[i])]_vars

\* Channel i timed out in its first exchange and two more passes were walked.
C1_Witness ==
    \E i \in Chan : ~encoderExists[i] /\ sent[i] = 1 /\ passes >= 3

\* C2: a successful exchange whose byte differs from the stored position
\* stores the byte and stamps lastChanged with the time of that step, and the
\* colouring of the same call of loop() paints the channel with its position
\* colour.
C2_ChangeMakesActive ==
    /\ [][\A i \in Chan :
            (mpc = "rd" /\ mpc' = "tail" /\ encoderIdx = i
                /\ encoderPosition[i] # byteReceived)
            => (encoderPosition'[i] = byteReceived /\ lastChanged'[i] = now')]_vars
    /\ [](\A i \in changed :
            drawn[i].what # "none"
            => (drawn[i].what = "fill" /\ drawn[i].idx = encoderPosition[i]))

\* Channel i changed to a new position in this pass and was painted with it.
C2_Witness ==
    \E i \in changed :
        /\ drawn[i].what = "fill" /\ drawn[i].idx = encoderPosition[i]
        /\ encoderPosition[i] # 0 /\ lastChanged[i] > MASTER_DELAY_MS
        /\ lastChanged[i] < drawn[i].at

\* C3 as stated: at every render call at time T an existing channel is
\* painted with its position colour exactly when T - lastChanged is less
\* than timeToRainbowMs, and with the rainbow otherwise, the boundary
\* T - lastChanged = timeToRainbowMs included.
C3_Original ==
    \A i \in Chan :
        drawn[i].what \in {"fill", "rainbow"}
        => (drawn[i].what = "fill"
              <=> drawn[i].at - lastChanged[i] < timeToRainbowMs)

\* C3 as amended: the position colour is painted exactly when T - lastChanged
\* is at most timeToRainbowMs (the boundary is still active), the rainbow
\* when it is greater.
C3_ActiveUpToTimeout ==
    \A i \in Chan :
        drawn[i].what \in {"fill", "rainbow"}
        => (drawn[i].what = "fill"
              <=> drawn[i].at - lastChanged[i] <= timeToRainbowMs)

\* A render call exactly timeToRainbowMs after the last change.
C3_Witness ==
    \E i \in Chan :
        /\ encoderExists[i] /\ drawn[i].what = "fill"
        /\ drawn[i].at - lastChanged[i] = timeToRainbowMs

\* C4: after a poll at t0 = lastChanged[i] has changed channel i's position,
\* every render call for i paints the colour of the new index until the
\* channel is stale, and every render call at a time of at least
\* t0 + timeToRainbowMs + 1 paints the rainbow.
C4_StaleAfterTimeout ==
    \A i \in Chan :
        (lastChanged[i] > 0 /\ drawn[i].what # "none")
        => IF drawn[i].at >= lastChanged[i] + timeToRainbowMs + 1
           THEN drawn[i].what = "rainbow"
           ELSE drawn[i].what = "fill" /\ drawn[i].idx = encoderPosition[i]

\* C5: the byte a responder writes for the raw reading R is
\* ((R mod 16) + 16) mod 16 and lies in 0..15, in both firmwares.
C5_WireValue ==
    \A s \in Chan :
        replies[s].n > 0
        => /\ replies[s].byte = ((replies[s].raw % 16) + 16) % 16
           /\ replies[s].byte \in 0 .. 15

\* Both firmwares can answer; here one answered a negative reading.
C5_Witness ==
    \E s \in Chan :
        /\ replies[s].n > 0 /\ replies[s].raw < -16
        /\ replies[s].raw % 16 # 0

\* The identity a responder answers to.
Identity(s) == IF firmware[s] = "static" THEN SLAVE_ENCODER_ID ELSE encoderId[s]

\* C6: a responder turns to transmit and writes only in the step that
\* follows reading its own identity; with any other byte read it changes
\* neither its direction, nor the wire, nor the position it will answer with.
C6_OnlyWhenAddressed ==
    [][\A s \in Chan :
          /\ (replies'[s] # replies[s]
                \/ (sdir[s] = RS485_RECEIVE /\ sdir'[s] = RS485_TRANSMIT))
             => (spc[s] = "rdelay" /\ sByteReceived[s] = Identity(s))
          /\ (spc[s] = "rdelay" /\ spc'[s] # "rdelay" /\ sByteReceived[s] # Identity(s))
             => /\ sdir' = sdir /\ sdir[s] = RS485_RECEIVE
                /\ replies' = replies /\ mrx' = mrx /\ srx' = srx
                /\ sEncoderPosition' = sEncoderPosition /\ raw' = raw]_vars

\* A responder that has answered once and has since read, and dropped, a
\* byte that is not its identity.
C6_Witness ==
    \E s \in Chan :
        /\ spc[s] = "idle" /\ replies[s].n = 1
        /\ sByteReceived[s] # Identity(s) /\ sdir[s] = RS485_RECEIVE

\* C7: at most one node of the bus has its transceiver in transmit mode.
C7_OneDriver ==
    Cardinality({s \in Chan : sdir[s] = RS485_TRANSMIT})
        + (IF mdir = RS485_TRANSMIT THEN 1 ELSE 0) <= 1

C9_PassCompletes ==
    (mpc \in {"for", "txd", "wait", "wd", "rd", "tail"}) ~> (mpc = "color")

\* No responder is connected, every channel has timed out, and the master
\* is colouring.
C9_Witness ==
    /\ \A s \in Chan : spc[s] = "off"
    /\ \A i \in Chan : ~encoderExists[i]
    /\ mpc = "color" /\ passes >= 1

\* The turns of the current pass, as channel numbers.
TurnChannels == [k \in 1 .. Len(turnLog) |-> turnLog[k][1]]

\* The address bytes the flags seen at the turns call for.
RECURSIVE Expected(_)
Expected(log) ==
    IF log = <<>> THEN <<>>
    ELSE LET rest == Expected(SubSeq(log, 1, Len(log) - 1))
             last == log[Len(log)]
         IN  IF last[2] THEN Append(rest, ENCODER_IDS(last[1])) ELSE rest

\* C10: a pass takes the channels in increasing order, writes exactly one
\* address byte for each channel whose flag is true at its turn and none for
\* the others, and walks all channels even after a timeout.
C10_PassOrder ==
    /\ \A k \in 1 .. Len(turnLog) : TurnChannels[k] = k - 1
    /\ mpc \in {"for", "color", "loop"} => mlog = Expected(turnLog)
    /\ (passes > 0 /\ mpc \in {"color", "loop"}) => Len(turnLog) = NUM_ENCODERS

\* Channel 0 timed out in this pass and channel 1 was still polled.
C10_Witness ==
    /\ NUM_ENCODERS >= 2
    /\ mpc = "color" /\ passes = 1
    /\ ~encoderExists[0] /\ encoderExists[1]
    /\ mlog = <<ENCODER_IDS(0), ENCODER_IDS(1)>>

\* C11: a successful exchange whose byte equals the stored position of its
\* channel leaves that channel's encoderPosition, lastChanged and
\* encoderExists as they were, and no step changes a field of a channel other
\* than the one whose exchange is in progress.
C11_SameValueNoChange ==
    [][/\ (mpc = "rd" /\ mpc' = "tail"
             /\ encoderPosition[encoderIdx] = byteReceived)
          => /\ encoderPosition' = encoderPosition
             /\ lastChanged' = lastChanged
             /\ encoderExists' = encoderExists
       /\ \A j \in Chan :
             (\/ encoderPosition'[j] # encoderPosition[j]
              \/ lastChanged'[j] # lastChanged[j]
              \/ encoderExists'[j] # encoderExists[j])
             => (j = encoderIdx /\ mpc \in {"wd", "rd"})]_vars

\* A channel that changed in an earlier pass has just answered the same
\* position again.
C11_Witness ==
    /\ mpc = "tail" /\ encoderIdx \in Chan
    /\ encoderExists[encoderIdx] /\ encoderIdx \notin changed
    /\ encoderPosition[encoderIdx] = byteReceived
    /\ encoderPosition[encoderIdx] # 0
    /\ lastChanged[encoderIdx] > 0 /\ lastChanged[encoderIdx] + timeBetweenChecksMs < now

\* The end of a colouring pass of the controller that runs.
RenderEnds ==
    \/ mpc = "color" /\ mpc' = "loop"
    \/ apc = "color" /\ apc' = "loop"

\* C12: after N colouring passes the rainbow hue is (N * increment) mod
\* 327680 (the initial value is 0), it is always in 0 .. 327679, it changes
\* in exactly the steps that end a colouring pass, once, and in no other
\* step (polling included); the increment is 128 in the master and 256 in
\* the arm controller.
C12_RainbowPhase ==
    /\ [](/\ currRainbowHue \in 0 .. (HueWrap - 1)
          /\ apc = "off" =>
                currRainbowHue = (renders * HueIncrement) % HueWrap
          /\ apc # "off" =>
                currRainbowHue
                   = (renders * RAINBOW_HUE_INC_AMOUNT) % MAX_RAINBOW_HUE)
    /\ [][/\ (currRainbowHue' # currRainbowHue) <=> RenderEnds
          /\ RenderEnds <=> (renders' = renders + 1)
          /\ renders' \in {renders, renders + 1}]_vars

\* The master's hue has wrapped to 0 after 2560 colouring passes.
C12_Witness ==
    /\ mpc # "off" /\ renders = HueWrap \div HueIncrement
    /\ currRainbowHue = 0

\* C13: when two consecutive color() calls both twinkle an arm, the second
\* paints the even and the odd pixels from the tables exchanged, and the
\* parity of an arm changes only in the step that twinkles that arm.
C13_ParityAlternates ==
    /\ [](\A a \in Arm :
            (Len(paint[a]) = 2 /\ paint[a][1].what = "twinkle"
                /\ paint[a][2].what = "twinkle")
            => paint[a][2].evenComp # paint[a][1].evenComp)
    /\ [][\A a \in Arm :
            swap'[a] # swap[a]
            => (apc = "color" /\ currArm = a /\ isActive[a]
                  /\ Len(paint'[a]) >= 1
                  /\ paint'[a][Len(paint'[a])].what = "twinkle"
                  /\ paint'[a][Len(paint'[a])].evenComp = swap[a])]_vars

\* Two arms are active and each was twinkled in two consecutive color()
\* calls; their parities differ.
C13_Witness ==
    \E a, b \in Arm :
        /\ a # b
        /\ Len(paint[a]) = 2 /\ paint[a][1].what = "twinkle"
        /\ paint[a][2].what = "twinkle"
        /\ Len(paint[b]) = 2 /\ paint[b][1].what = "twinkle"
        /\ paint[b][2].what = "twinkle"
        /\ swap[a] # swap[b]

\* C14: every render call for a channel whose exists flag is false, or
\* whose last change is more than timeToRainbowMs ago, paints the rainbow.
C14_AbsentIsRainbow ==
    \A i \in Chan :
        (drawn[i].what # "none"
            /\ (~encoderExists[i]
                  \/ drawn[i].at > lastChanged[i] + timeToRainbowMs))
        => drawn[i].what = "rainbow"

\* C15: the single-slave master waits for the response byte no longer than
\* the timeout (timeToWaitMs, checked in steps of 10 ms); after that it has
\* given up and gone on to the colouring.
C15_BoundedWait ==
    mpc = "wait1" => now <= waitFrom + timeToWaitMs + PollStepMs

\* C16: at every render call the isActive flag that color() consults is
\* fresh: an arm is twinkled at time T only if T - activedTimeMs is less
\* than NUM_MS_TO_RAINBOW, also between two sensor-read ticks.
C16_FlagNeverStale ==
    (apc = "color" /\ now >= awake /\ currArm < NUM_ARMS
        /\ isActive[currArm])
    => now - activedTimeMs[currArm] < NUM_MS_TO_RAINBOW

\* C17: whenever a sensor-read tick finds an arm's encoder position
\* different from the stored one, the arm is active after the tick and its
\* activedTimeMs is the time of the tick.
C17_ChangeActivates ==
    [][\A a \in Arm :
          (apc = "read" /\ currArm = a
              /\ currentEncoderPos'[a] # currentEncoderPos[a])
          => (isActive'[a] /\ activedTimeMs'[a] = now)]_vars

\* C18: the initial stored position equals no response, so after a
\* successful exchange of a channel a change has been stamped for it
\* (lastChanged is no longer its initial 0), and a channel is painted with
\* a position colour only after a change was stamped.
C18_SentinelStart ==
    /\ (mpc = "tail" /\ encoderIdx \in Chan /\ encoderExists[encoderIdx])
       => lastChanged[encoderIdx] > 0
    /\ \A i \in Chan : drawn[i].what = "fill" => lastChanged[i] > 0

\* C19: a scheduler pass starts only when more than timeBetweenChecksMs has
\* passed since lastCheck; lastCheck is written only at the end of a pass,
\* after all channels were walked, with the current time; and outside a
\* pass the master writes no address byte, takes no byte from its receive
\* buffer and leaves its transceiver in receive direction.
C19_PassGating ==
    [][/\ (mpc = "loop" /\ mpc' = "for")
          => now - lastCheck > timeBetweenChecksMs
       /\ (mpc = "for" /\ mpc' = "color")
          => (lastCheck' = now /\ Len(turnLog) = NUM_ENCODERS)
       /\ lastCheck' # lastCheck => (mpc = "for" /\ mpc' = "color")
       /\ sent' # sent => (mpc = "for" /\ mpc' = "txd")
       /\ (mpc \in {"loop", "color"} /\ mpc' \in {"loop", "color"})
          => (sent' = sent /\ Len(mrx') >= Len(mrx)
                /\ mdir' = mdir /\ mdir = RS485_RECEIVE)]_vars

\* The second pass has just started, after several calls of loop() that
\* only rendered.
C19_Witness ==
    /\ mpc = "for" /\ encoderIdx = 0 /\ passes = 1 /\ renders >= 3
    /\ lastCheck > MASTER_DELAY_MS /\ now - lastCheck > timeBetweenChecksMs
    /\ \E i \in Chan : encoderExists[i]

\* C20: a responder's transceiver is in transmit mode exactly during the
\* delay that follows its reply; for every matching address byte it writes
\* exactly one byte; it reads the next byte only in receive mode; and it
\* writes nothing without having read its identity.
C20_OneReplyThenReceive ==
    /\ [](\A s \in Chan : sdir[s] = RS485_TRANSMIT <=> spc[s] = "hold")
    /\ [][\A s \in Chan :
            /\ (spc[s] = "rdelay" /\ spc'[s] # "rdelay"
                  /\ sByteReceived[s] = Identity(s))
               => (replies'[s].n = replies[s].n + 1 /\ spc'[s] = "hold"
                     /\ Len(mrx') <= Len(mrx) + 1)
            /\ replies'[s] # replies[s]
               => (replies'[s].n = replies[s].n + 1 /\ spc[s] = "rdelay"
                     /\ sByteReceived[s] = Identity(s))
            /\ (mrx' # mrx /\ Len(mrx') > Len(mrx))
               => \E t \in Chan : replies'[t] # replies[t]
            /\ srx'[s] # srx[s] /\ Len(srx'[s]) < Len(srx[s])
               => sdir[s] = RS485_RECEIVE]_vars

\* A responder has answered two address bytes and is back in receive mode.
C20_Witness ==
    \E s \in Chan :
        /\ replies[s].n = 2 /\ spc[s] = "idle" /\ sdir[s] = RS485_RECEIVE
        /\ srx[s] = <<>>

\* The arm controller of the run is v0.1.
IsV1 == apc \in {"loop0", "read0", "color0"}

\* compColors[] of the arm controller of the run.
CompTable == IF IsV1 THEN CompColorsV1 ELSE CompColors

\* C21: after a twinkle of an arm with colour index k, every even pixel
\* holds colors[k] if swap was false and compColors[k] if it was true, and
\* every odd pixel holds the other one, in both versions of the arm
\* controller.
C21_TwinkleColours ==
    \A a \in Arm :
        (/\ paint[a] # <<>>
         /\ paint[a][Len(paint[a])].what = "twinkle"
         /\ paint[a][Len(paint[a])].idx \in 0 .. (NUM_COLOR_MAPPINGS - 1))
        => LET t == paint[a][Len(paint[a])]
           IN  \A i \in Pixel :
                   pixels[a][i] =
                       Rgb(IF (i % 2 = 0) = t.evenComp
                           THEN CompTable[t.idx + 1]
                           ELSE Colors[t.idx + 1])

\* C22: within one call of loop() the output painted and shown for a
\* channel is not overwritten by the rendering of another channel: what
\* was shown for each painted channel is still what its strip holds.
C22_OwnStrip ==
    \A i \in Chan :
        drawn[i].what \in {"fill", "rainbow"}
        => strip = [kind |-> drawn[i].what, val |-> drawn[i].idx]

\* C23: currSeq stays in 0 .. NUM_COLOR_MAPPINGS; it changes only when
\* more than TEST_DELAY_MS has passed since the last change, by one or from
\* NUM_COLOR_MAPPINGS to 0; twinkle reads the tables only at indices below
\* NUM_COLOR_MAPPINGS; and the sequences are shown in cyclic order, each
\* once per cycle, the rainbow (sequence NUM_COLOR_MAPPINGS) first.
C23_TestSequence ==
    /\ [](currSeq \in 0 .. NUM_COLOR_MAPPINGS)
    /\ [](\A a \in Arm : \A j \in 1 .. Len(paint[a]) :
              paint[a][j].what = "twinkle"
              => paint[a][j].idx \in 0 .. (NUM_COLOR_MAPPINGS - 1))
    /\ [](\A j \in 1 .. (Len(seqLog) - 1) :
              seqLog[j + 1] = (seqLog[j] + 1) % (NUM_COLOR_MAPPINGS + 1))
    /\ [](seqLog # <<>> => seqLog[1] = NUM_COLOR_MAPPINGS)
    /\ [][currSeq' # currSeq
            => /\ now > startTimeMs + TEST_DELAY_MS
               /\ startTimeMs' = now
               /\ currSeq' = (currSeq + 1) % (NUM_COLOR_MAPPINGS + 1)]_vars

\* C24: the byte the master reads in the exchange of channel i was written
\* by responder i during that exchange: the receive buffer is empty when
\* the address byte is written, and until the master has read, only
\* responder i adds a byte to it.
C24_OwnReply ==
    [][/\ (mpc = "for" /\ mpc' = "txd") => mrx = <<>>
       /\ (mpc \in {"txd", "wait", "wd"} /\ Len(mrx') > Len(mrx))
          => replies'[encoderIdx].n = replies[encoderIdx].n + 1]_vars

\* C25: a channel is marked absent only when no byte has arrived: in the
\* step that sets encoderExists[i] to false the receive buffer is empty.
C25_AbsentOnlyIfSilent ==
    [][\A i \in Chan :
          (encoderExists[i] /\ ~encoderExists'[i]) => mrx = <<>>]_vars

\* Responder i has answered every address byte sent to it, the last one no
\* later than the end of the wait window of the current exchange (a
\* responder that is still in the delay after its reply wrote it
\* SlaveHoldMs before the end of that delay).
AnsweredInWindow(i) ==
    /\ replies[i].n = sent[i]
    /\ spc[i] = "hold"
    /\ swake[i] - SlaveHoldMs <= startTime + timeToWaitMs

\* C26: a channel whose responder has answered every address byte sent to
\* it within the wait window is not marked absent (and so is polled in
\* every scheduler pass).
C26_AnsweringStaysPresent ==
    [][\A i \in Chan :
          (encoderExists[i] /\ ~encoderExists'[i]) => ~AnsweredInWindow(i)]_vars

\* The address bytes the master writes.
MasterBytes == {ENCODER_IDS(i) : i \in Chan}

\* The values a responder can answer with.
ResponseValues == 0 .. (NUM_ENCODER_POSITIONS - 1)

\* C27: a responder answers only an address byte written by the master,
\* never a byte that is a response value of a responder.
C27_OnlyMasterTriggers ==
    [][\A s \in Chan :
          replies'[s] # replies[s]
          => /\ sByteReceived[s] \in MasterBytes
             /\ sByteReceived[s] \notin ResponseValues]_vars

\* C28: an active arm has its currentColorIndex in
\* 0 .. NUM_COLOR_MAPPINGS - 1, and every twinkle read the colour tables at
\* such an index, never at the initial NUM_COLOR_MAPPINGS + 1.
C28_IndexInRange ==
    \A a \in Arm :
        /\ isActive[a]
           => currentColorIndex[a] \in 0 .. (NUM_COLOR_MAPPINGS - 1)
        /\ \A j \in 1 .. Len(paint[a]) :
              paint[a][j].what = "twinkle"
              => paint[a][j].idx \in 0 .. (NUM_COLOR_MAPPINGS - 1)

====
